---- MODULE Spec2Model ----
(***************************************************************************)
(* Model of banana_pygame_starter.py: the deck / hand lifecycle, the poker *)
(* evaluation, the joker chain, the round / run state machine driven by    *)
(* the on-screen buttons, and the shop.                                    *)
(*                                                                         *)
(* Every action of Next is one event handler of App.run's dispatch (a      *)
(* button's action, or a mode-specific click) run to completion.           *)
(***************************************************************************)
EXTENDS Integers, Sequences, FiniteSets, TLC

(***************************************************************************)
(* Bounds of the exploration (not program constants).                      *)
(***************************************************************************)
\* rng.shuffle is modelled by NumShuffles of its possible outcomes
NumShuffles == 2
\* the player clicks at most MaxSelect cards into the selection
MaxSelect == 6
\* close_shop is explored while round_no < MaxRound
MaxRound == 2
\* each upgrade counter is bought up to MaxUpgrade
MaxUpgrade == 2
\* roll_shop's two draws on the rng are modelled by NumRolls of their outcomes
NumRolls == 2

(***************************************************************************)
(* Helpers on sequences.                                                   *)
(***************************************************************************)
Range(s) == {s[i] : i \in 1..Len(s)}

Min(a, b) == IF a < b THEN a ELSE b

Max(a, b) == IF a > b THEN a ELSE b

Take(s, n) == SubSeq(s, 1, Min(n, Len(s)))

Drop(s, n) == SubSeq(s, Min(n, Len(s)) + 1, Len(s))

RECURSIVE Reverse(_)
Reverse(s) == IF s = <<>> THEN <<>> ELSE Append(Reverse(Tail(s)), Head(s))

RECURSIVE SumSeq(_)
SumSeq(s) == IF s = <<>> THEN 0 ELSE Head(s) + SumSeq(Tail(s))

\* the sequence s rotated left by n places
Rotate(s, n) ==
    IF s = <<>> THEN s
    ELSE LET k == n % Len(s) IN SubSeq(s, k + 1, Len(s)) \o SubSeq(s, 1, k)

\* Python's list.sort(key, reverse=True): stable, equal keys keep their order
RECURSIVE InsertDesc(_, _, _)
InsertDesc(x, s, key) ==
    IF s = <<>> THEN <<x>>
    ELSE IF key[Head(s)] <= key[x] THEN <<x>> \o s
    ELSE <<Head(s)>> \o InsertDesc(x, Tail(s), key)

RECURSIVE SortDesc(_, _)
SortDesc(s, key) ==
    IF s = <<>> THEN <<>>
    ELSE InsertDesc(Head(s), SortDesc(Tail(s), key), key)

(***************************************************************************)
(* Blind goals.                                                            *)
(***************************************************************************)
BLIND_GOALS ==
    << 300, 600, 900, 500, 1000, 1500, 800, 1600, 2400, 1100, 2200, 3300,
       1500, 3000, 4500, 2000, 4000, 6000, 2500, 5000, 7500, 3000, 6000, 9000 >>

\* (variant) a schedule that grows by one half of the last goal per round
get_blind_goal_linear(round_no) ==
    IF round_no <= Len(BLIND_GOALS) THEN BLIND_GOALS[round_no]
    ELSE BLIND_GOALS[Len(BLIND_GOALS)]
            + (BLIND_GOALS[Len(BLIND_GOALS)] * (round_no - Len(BLIND_GOALS))) \div 2

\* int(x) of a non-negative float product: the floor (the float product
\* 9000 * 1.5 ** k has the integer part of the exact one for k up to 67)
get_blind_goal(round_no) ==
    IF round_no <= Len(BLIND_GOALS) THEN BLIND_GOALS[round_no]
    ELSE LET k == round_no - Len(BLIND_GOALS)
         IN  (BLIND_GOALS[Len(BLIND_GOALS)] * 3^k) \div 2^k

(***************************************************************************)
(* Cards.                                                                  *)
(***************************************************************************)
SUITS == <<"S", "H", "D", "C">>

RANKS == <<"A", "2", "3", "4", "5", "6", "7", "8", "9", "10", "J", "Q", "K">>

RANK_VALUE == [r \in Range(RANKS) |-> CHOOSE i \in 1..Len(RANKS) : RANKS[i] = r]

CARD_CHIPS ==
    [r \in Range(RANKS) |->
        IF r = "A" THEN 11
        ELSE IF r \in {"10", "J", "Q", "K"} THEN 10
        ELSE RANK_VALUE[r]]

Card(s, r) == [suit |-> s, rank |-> r]

value(c) == IF c.rank = "A" THEN 14 ELSE RANK_VALUE[c.rank]

SuitIndex(s) == CHOOSE i \in 1..Len(SUITS) : SUITS[i] = s

\* the list build_standard makes before it shuffles: suit by suit, rank by rank
StandardCards ==
    [i \in 1..(Len(SUITS) * Len(RANKS)) |->
        Card(SUITS[((i - 1) \div Len(RANKS)) + 1], RANKS[((i - 1) % Len(RANKS)) + 1])]

AllCards == Range(StandardCards)

(***************************************************************************)
(* Deck.  rng.shuffle may leave the cards in any order; the model takes    *)
(* NumShuffles of those orders: the cards in build_standard's order,       *)
(* rotated by a multiple of ShuffleStep.                                   *)
(***************************************************************************)
ShuffleStep == 5

ShuffleChoices == 0..(NumShuffles - 1)

shuffle(cs, k) ==
    IF Cardinality(Range(cs)) = Len(cs)
    THEN Rotate(SelectSeq(StandardCards, LAMBDA c : c \in Range(cs)), k * ShuffleStep)
    ELSE Rotate(cs, k * ShuffleStep)

\* Deck.build_standard: the new draw queue (the discard pile is cleared by the caller)
build_standard(k) == shuffle(StandardCards, k)

\* Deck.draw: <<the cards drawn, the draw queue left>>; a short draw when the
\* queue runs out
draw(cards, n) == <<Take(cards, Max(n, 0)), Drop(cards, Max(n, 0))>>

\* (variant) a toss that loses the cards
toss_dropped(discard, cs) == discard

\* Deck.toss: push cards onto the discard pile in the order given
toss(discard, cs) == discard \o cs

\* Deck._recycle: <<draw queue, discard pile>> after it
recycle(cards, discard, k) ==
    IF discard = <<>> THEN <<cards, discard>>
    ELSE <<shuffle(cards \o Reverse(discard), k), <<>>>>

(***************************************************************************)
(* Hand.                                                                   *)
(***************************************************************************)
\* (variant) an add that takes every card it is given
add_uncapped(hand, cs, max_size) == hand \o cs

\* Hand.add: append only what fits under max_size
add(hand, cs, max_size) ==
    LET space == max_size - Len(hand)
    IN  IF space > 0 THEN hand \o Take(cs, space) ELSE hand

\* positions of the hand are 0-based, as in the code
IndexSeq(n) == [i \in 1..n |-> i - 1]

\* Hand.remove_indices: the cards removed and the cards kept, both in hand order
removed_cards(hand, idxs) ==
    LET pos == SelectSeq(IndexSeq(Len(hand)), LAMBDA i : i \in Range(idxs))
    IN  [j \in 1..Len(pos) |-> hand[pos[j] + 1]]

kept_cards(hand, idxs) ==
    LET pos == SelectSeq(IndexSeq(Len(hand)), LAMBDA i : i \notin Range(idxs))
    IN  [j \in 1..Len(pos) |-> hand[pos[j] + 1]]

RankKey == [c \in AllCards |-> value(c)]

\* the tuple key (SUITS.index(c.suit), c.value()) as one number
SuitKey == [c \in AllCards |-> (SuitIndex(c.suit) - 1) * 100 + value(c)]

sort_by_rank(hand) == SortDesc(hand, RankKey)

sort_by_suit(hand) == SortDesc(hand, SuitKey)

\* App.sort_hand
sort_hand(hand, sort_mode) ==
    IF sort_mode = "rank" THEN sort_by_rank(hand)
    ELSE IF sort_mode = "suit" THEN sort_by_suit(hand)
    ELSE hand

(***************************************************************************)
(* Poker evaluation.  The multipliers of BASE_TABLE and of the jokers are  *)
(* floats holding whole numbers, so int(chips * mult) is the integer       *)
(* product.                                                                *)
(***************************************************************************)
BASE_TABLE ==
    [kind \in {"High Card", "Pair", "Two Pair", "Three of a Kind", "Straight", "Flush",
               "Full House", "Four of a Kind", "Straight Flush", "Royal Flush"} |->
        CASE kind = "High Card" -> <<5, 1>>
          [] kind = "Pair" -> <<10, 2>>
          [] kind = "Two Pair" -> <<20, 2>>
          [] kind = "Three of a Kind" -> <<30, 3>>
          [] kind = "Straight" -> <<30, 4>>
          [] kind = "Flush" -> <<35, 4>>
          [] kind = "Full House" -> <<40, 4>>
          [] kind = "Four of a Kind" -> <<60, 7>>
          [] kind = "Straight Flush" -> <<100, 8>>
          [] kind = "Royal Flush" -> <<100, 8>>]

\* {10, 11, 12, 13, 14}.issubset(set(vals))
is_royal(vals) == (10..14) \subseteq vals

\* five consecutive values among the distinct values
is_straight(vals) == \E v \in vals : (v..(v + 4)) \subseteq vals

NatKey == [n \in 0..(Len(SUITS) * Len(RANKS)) |-> n]

\* (variant) rank counts in the order the ranks come in the cards, unsorted
rank_counts_as_dealt(cs) ==
    [j \in 1..Len(cs) |-> Cardinality({i \in 1..Len(cs) : cs[i].rank = cs[j].rank})]

\* sorted(rank_counts.values(), reverse=True)
rank_counts(cs) ==
    LET present == SelectSeq(RANKS, LAMBDA r : \E i \in 1..Len(cs) : cs[i].rank = r)
        cnt == [j \in 1..Len(present) |->
                   Cardinality({i \in 1..Len(cs) : cs[i].rank = present[j]})]
    IN  SortDesc(cnt, NatKey)

\* max(suit_counts.values(), default=0)
max_suit_count(cs) ==
    LET n(s) == Cardinality({i \in 1..Len(cs) : cs[i].suit = s})
    IN  CHOOSE m \in 0..Len(cs) :
            /\ \A i \in 1..Len(SUITS) : n(SUITS[i]) <= m
            /\ (m = 0 \/ \E i \in 1..Len(SUITS) : n(SUITS[i]) = m)

\* (variant) values in which the ace is never counted low
card_values_ace_high(cs) == {value(cs[i]) : i \in 1..Len(cs)}

\* the values of the cards, and the values with the ace counted low
card_values(cs) == {value(cs[i]) : i \in 1..Len(cs)}

card_values_ace_low(cs) == {IF cs[i].rank = "A" THEN 1 ELSE value(cs[i]) : i \in 1..Len(cs)}

\* (variant) a decision that reads fewer than five cards as a pair first
kind_of_pair_first(n, counts, is_flush, straight, royal) ==
    IF n = 0 THEN "Incomplete"
    ELSE IF n >= 5 THEN
        IF straight /\ is_flush /\ royal THEN "Royal Flush"
        ELSE IF straight /\ is_flush THEN "Straight Flush"
        ELSE IF counts[1] = 4 THEN "Four of a Kind"
        ELSE IF counts[1] = 3 /\ counts[2] = 2 THEN "Full House"
        ELSE IF is_flush THEN "Flush"
        ELSE IF straight THEN "Straight"
        ELSE IF counts[1] = 3 THEN "Three of a Kind"
        ELSE IF counts[1] = 2 /\ counts[2] = 2 THEN "Two Pair"
        ELSE IF counts[1] = 2 THEN "Pair"
        ELSE "High Card"
    ELSE
        IF counts[1] >= 2 THEN "Pair"
        ELSE "High Card"

\* eval_hand's decision: n cards, their sorted rank counts, and whether they
\* are a flush, a straight, a royal
kind_of(n, counts, is_flush, straight, royal) ==
    IF n = 0 THEN "Incomplete"
    ELSE IF n >= 5 THEN
        IF straight /\ is_flush /\ royal THEN "Royal Flush"
        ELSE IF straight /\ is_flush THEN "Straight Flush"
        ELSE IF counts[1] = 4 THEN "Four of a Kind"
        ELSE IF counts[1] = 3 /\ counts[2] = 2 THEN "Full House"
        ELSE IF is_flush THEN "Flush"
        ELSE IF straight THEN "Straight"
        ELSE IF counts[1] = 3 THEN "Three of a Kind"
        ELSE IF counts[1] = 2 /\ counts[2] = 2 THEN "Two Pair"
        ELSE IF counts[1] = 2 THEN "Pair"
        ELSE "High Card"
    ELSE
        IF counts[1] = 4 THEN "Four of a Kind"
        ELSE IF n = 4 /\ counts[1] = 3 THEN "Three of a Kind"
        ELSE IF n = 4 /\ counts[1] = 2 /\ counts[2] = 2 THEN "Two Pair"
        ELSE IF n \in {3, 4} /\ counts[1] = 3 THEN "Three of a Kind"
        ELSE IF n \in {2, 3, 4} /\ counts[1] = 2
                /\ (n = 3 \/ (n = 4 /\ counts[2] # 2)) THEN "Pair"
        ELSE IF n = 2 /\ counts[1] = 2 THEN "Pair"
        ELSE "High Card"

\* the category eval_hand gives a list of cards
hand_kind(cs) ==
    kind_of(Len(cs), rank_counts(cs), max_suit_count(cs) = 5,
            is_straight(card_values(cs)) \/ is_straight(card_values_ace_low(cs)),
            is_royal(card_values(cs)))

\* BASE_TABLE.get(kind, (0, 0.0)) with the kind: <<kind, base chips, base mult>>
base_of(kind) ==
    IF kind \in DOMAIN BASE_TABLE
    THEN <<kind, BASE_TABLE[kind][1], BASE_TABLE[kind][2]>>
    ELSE <<kind, 0, 0>>

\* eval_hand: <<kind, base chips, base mult>>
eval_hand(cs) == base_of(hand_kind(cs))

(***************************************************************************)
(* Jokers.  A joker is named by its class; the context is ScoreContext.    *)
(***************************************************************************)
has_suit(ctx, s) == \E i \in 1..Len(ctx.cards) : ctx.cards[i].suit = s

add_mult(ctx, cond, n) == IF cond THEN [ctx EXCEPT !.base_mult = @ + n] ELSE ctx

add_chips(ctx, cond, n) == IF cond THEN [ctx EXCEPT !.base_chips = @ + n] ELSE ctx

\* <Class>.apply(ctx)
apply(j, ctx) ==
    CASE j = "BaseJoker" -> add_mult(ctx, TRUE, 4)
      [] j = "GreedyJoker" -> add_mult(ctx, has_suit(ctx, "D"), 4)
      [] j = "LustyJoker" -> add_mult(ctx, has_suit(ctx, "H"), 4)
      [] j = "WrathfulJoker" -> add_mult(ctx, has_suit(ctx, "S"), 4)
      [] j = "GluttonousJoker" -> add_mult(ctx, has_suit(ctx, "C"), 4)
      [] j = "JollyJoker" -> add_mult(ctx, ctx.hand_type = "Pair", 8)
      [] j = "ZanyJoker" -> add_mult(ctx, ctx.hand_type = "Three of a Kind", 8)
      [] j = "MadJoker" -> add_mult(ctx, ctx.hand_type = "Four of a Kind", 20)
      [] j = "CrazyJoker" -> add_mult(ctx, ctx.hand_type = "Straight", 12)
      [] j = "DrollJoker" -> add_mult(ctx, ctx.hand_type = "Flush", 10)
      [] j = "SlyJoker" -> add_chips(ctx, ctx.hand_type = "Pair", 50)
      [] j = "WilyJoker" -> add_chips(ctx, ctx.hand_type = "Three of a Kind", 100)
      [] j = "CleverJoker" -> add_chips(ctx, ctx.hand_type = "Four of a Kind", 150)
      [] j = "DeviousJoker" -> add_chips(ctx, ctx.hand_type = "Straight", 100)
      [] j = "CraftyJoker" -> add_chips(ctx, ctx.hand_type = "Flush", 80)
      [] j = "TheMaskJoker" -> add_mult(ctx, TRUE, 5)
      [] OTHER -> ctx

\* (variant) a joker chain in which only the first owned joker counts
apply_jokers_first(js, ctx) == IF js = <<>> THEN ctx ELSE apply(Head(js), ctx)

\* for j in self.player.jokers: j.apply(ctx)
RECURSIVE apply_jokers(_, _)
apply_jokers(js, ctx) ==
    IF js = <<>> THEN ctx ELSE apply_jokers(Tail(js), apply(Head(js), ctx))

\* App.full_joker_pool: class and price, in the order of the list
full_joker_pool ==
    << [cls |-> "BaseJoker", price |-> 10],
       [cls |-> "GreedyJoker", price |-> 15],
       [cls |-> "LustyJoker", price |-> 15],
       [cls |-> "WrathfulJoker", price |-> 15],
       [cls |-> "GluttonousJoker", price |-> 15],
       [cls |-> "JollyJoker", price |-> 20],
       [cls |-> "ZanyJoker", price |-> 25],
       [cls |-> "MadJoker", price |-> 30],
       [cls |-> "TheMaskJoker", price |-> 20],
       [cls |-> "CrazyJoker", price |-> 25],
       [cls |-> "DrollJoker", price |-> 25],
       [cls |-> "SlyJoker", price |-> 20],
       [cls |-> "WilyJoker", price |-> 25],
       [cls |-> "CleverJoker", price |-> 30],
       [cls |-> "DeviousJoker", price |-> 25],
       [cls |-> "CraftyJoker", price |-> 25] >>

\* roll_shop's upgrade_pool: the counter an upgrade raises, and its price
upgrade_pool ==
    << [name |-> "hand_size_bonus", price |-> 40],
       [name |-> "redraw_bonus", price |-> 30],
       [name |-> "joker_slots_bonus", price |-> 50] >>

(***************************************************************************)
(* Scoring of one play (App.play_hand, the part before the state changes). *)
(***************************************************************************)
\* sum(CARD_CHIPS[c.rank] for c in played_cards)
card_chips(played) == SumSeq([i \in 1..Len(played) |-> CARD_CHIPS[played[i].rank]])

\* ScoreContext(base_chips + card_chips, base_mult, kind, played_cards)
initial_context(ev, played) ==
    [base_chips |-> ev[2] + card_chips(played), base_mult |-> ev[3],
     hand_type |-> ev[1], cards |-> played, coins |-> 0]

\* the ScoreContext after the joker chain
score_context(played, js) == apply_jokers(js, initial_context(eval_hand(played), played))

\* points = int(ctx.base_chips * ctx.base_mult)
points_of(ctx) == ctx.base_chips * ctx.base_mult

\* (variant) coins without the minimum of one
coins_of_tenth(ctx) == (points_of(ctx) \div 10) + ctx.coins

\* gained_coins = max(1, points // 10) + ctx.coins
coins_of(ctx) == Max(1, points_of(ctx) \div 10) + ctx.coins

play_points(played, js) == points_of(score_context(played, js))

play_coins(played, js) == coins_of(score_context(played, js))

(***************************************************************************)
(* The state of the App: the fields of Deck, Hand, Player, Upgrades,       *)
(* RoundRules, Game and App that the handlers read and write.              *)
(***************************************************************************)
VARIABLES
    cards,          \* Deck.cards: the draw queue, front first
    discard,        \* Deck.discard
    hand,           \* Hand.cards
    max_size,       \* Hand.max_size
    jokers,         \* Player.jokers: the classes of the owned jokers, in order
    score,          \* Player.score: the round score
    coins,          \* Player.coins
    upgrades,       \* Player.upgrades
    rules,          \* Game.rules
    round_no,       \* Game.round_no
    mode,           \* Game.mode: "PLAY", "SHOP", "GAMEOVER" or "DECK"
    selected,       \* App.selected: 0-based hand positions, in click order
    sort_mode,      \* App.sort_mode
    shop_items,     \* App.shop_items: the current offer
    shop_available, \* App.shop_available
    joker_deck,     \* App.joker_deck: the jokers roll_shop can still offer
    highscores,     \* App.highscores
    last,           \* history: what the last handler did (not program state)
    plan            \* the player: how many cards a press commits (cards), and
                    \* how the shop is left (exit)

vars == <<cards, discard, hand, max_size, jokers, score, coins, upgrades, rules,
          round_no, mode, selected, sort_mode, shop_items, shop_available,
          joker_deck, highscores, last, plan>>

\* Player.joker_slots
joker_slots == 5
\* the most cards play_hand accepts
MaxPlay == 5

\* the history of a handler: its name, whether it acted (ok) or rejected, the
\* number of save_highscore calls it made, and, for an accepted play, the round
\* score right after scoring and whether the draw queue was empty after the refill
Did(op) == [op |-> op, ok |-> TRUE, saves |-> 0, scored |-> 0, deck_empty |-> FALSE]

\* the current state as one record, so that a handler is a function of it
State ==
    [cards |-> cards, discard |-> discard, hand |-> hand, max_size |-> max_size,
     jokers |-> jokers, score |-> score, coins |-> coins, upgrades |-> upgrades,
     rules |-> rules, round_no |-> round_no, mode |-> mode, selected |-> selected,
     sort_mode |-> sort_mode, shop_items |-> shop_items,
     shop_available |-> shop_available, joker_deck |-> joker_deck,
     highscores |-> highscores, last |-> last]

Becomes(s) ==
    /\ cards' = s.cards
    /\ discard' = s.discard
    /\ hand' = s.hand
    /\ max_size' = s.max_size
    /\ jokers' = s.jokers
    /\ score' = s.score
    /\ coins' = s.coins
    /\ upgrades' = s.upgrades
    /\ rules' = s.rules
    /\ round_no' = s.round_no
    /\ mode' = s.mode
    /\ selected' = s.selected
    /\ sort_mode' = s.sort_mode
    /\ shop_items' = s.shop_items
    /\ shop_available' = s.shop_available
    /\ joker_deck' = s.joker_deck
    /\ highscores' = s.highscores
    /\ last' = s.last

\* Player.effective_hand_size / effective_redraws / effective_joker_slots
effective_hand_size(s) == 8 + s.upgrades.hand_size_bonus

effective_redraws(s) == 5 + s.upgrades.redraw_bonus

effective_joker_slots(s) == joker_slots + s.upgrades.joker_slots_bonus

\* RoundRules.reset_round_values
reset_round_values == [hands_remaining |-> 5, redraw_remaining |-> 10]

\* RoundRules(score_goal=g): the dataclass defaults
RoundRules(g) == [score_goal |-> g, hands_remaining |-> 5, redraw_remaining |-> 10]

(***************************************************************************)
(* High scores.                                                            *)
(***************************************************************************)
\* the order of sorted(key=lambda e: (-e["score"], -e["round"]))
record_before(a, b) ==
    a.score > b.score \/ (a.score = b.score /\ a.round > b.round)

RECURSIVE insert_record(_, _)
insert_record(x, s) ==
    IF s = <<>> THEN <<x>>
    ELSE IF record_before(x, Head(s)) THEN <<x>> \o s
    ELSE <<Head(s)>> \o insert_record(x, Tail(s))

\* sorted(...) is stable: a record stays behind the equal ones before it
RECURSIVE sort_records(_)
sort_records(s) ==
    IF s = <<>> THEN <<>>
    ELSE insert_record(s[Len(s)], sort_records(SubSeq(s, 1, Len(s) - 1)))

\* (variant) the record appended and the list cut, without the sort
save_highscore_appended(s) ==
    LET entry == [score |-> s.score, round |-> s.round_no]
    IN  [s EXCEPT !.highscores = Take(Append(@, entry), 10),
                  !.last.saves = @ + 1]

\* App.save_highscore
save_highscore(s) ==
    LET entry == [score |-> s.score, round |-> s.round_no]
    IN  [s EXCEPT !.highscores = Take(sort_records(Append(@, entry)), 10),
                  !.last.saves = @ + 1]

(***************************************************************************)
(* The handlers, as functions of the state.                                *)
(***************************************************************************)
\* App.deal_up_to_full
\* ... hand.add(d), sort_hand(), where d is what deck.draw(need) returned
dealt(s, d) ==
    [s EXCEPT !.hand = sort_hand(add(s.hand, d[1], s.max_size), s.sort_mode),
              !.cards = d[2]]

\* ... "Check if deck is empty and goal not reached"
deck_checked(s) ==
    IF s.cards = <<>> /\ s.score < s.rules.score_goal
    THEN save_highscore([s EXCEPT !.mode = "GAMEOVER"])
    ELSE s

deal_up_to_full(s) ==
    IF s.max_size - Len(s.hand) > 0
    THEN deck_checked(dealt(s, draw(s.cards, s.max_size - Len(s.hand))))
    ELSE s

RollChoices == 0..(NumRolls - 1)

\* (variant) an offer rolled from the whole pool, bought jokers included
roll_shop_any(s, r) ==
    LET joker_pool == Rotate(full_joker_pool, r * ShuffleStep)
        chosen == Take(joker_pool, 2)
        u == (r % Len(upgrade_pool)) + 1
    IN  [i \in 1..Len(chosen) |->
            [kind |-> "joker", name |-> chosen[i].cls, price |-> chosen[i].price]]
        \o << [kind |-> "upgrade", name |-> upgrade_pool[u].name,
               price |-> upgrade_pool[u].price] >>

\* App.roll_shop: up to two jokers off the shuffled joker_deck, and one upgrade;
\* outcome r of the rng: the joker_deck rotated by r * ShuffleStep, and the
\* upgrade at r (modulo the pool's length)
roll_shop(s, r) ==
    LET joker_pool == Rotate(s.joker_deck, r * ShuffleStep)
        chosen == Take(joker_pool, 2)
        u == (r % Len(upgrade_pool)) + 1
    IN  [i \in 1..Len(chosen) |->
            [kind |-> "joker", name |-> chosen[i].cls, price |-> chosen[i].price]]
        \o << [kind |-> "upgrade", name |-> upgrade_pool[u].name,
               price |-> upgrade_pool[u].price] >>

\* App.open_shop
open_shop(s, r) ==
    IF ~s.shop_available THEN s
    ELSE [s EXCEPT !.shop_items = roll_shop(s, r), !.mode = "SHOP"]

\* Game.new_round
\* ... the resets and deck._recycle(), where r is what recycle returned
round_reset(s, r) ==
    [s EXCEPT !.score = 0,
              !.rules.hands_remaining = reset_round_values.hands_remaining,
              !.rules.redraw_remaining = reset_round_values.redraw_remaining,
              !.cards = r[1], !.discard = r[2]]

\* ... "If no discarded cards, build standard deck"
deck_rebuilt(s, k) ==
    IF s.cards = <<>>
    THEN [s EXCEPT !.cards = build_standard(k), !.discard = <<>>]
    ELSE s

new_round(s, k) == deck_rebuilt(round_reset(s, recycle(s.cards, s.discard, k)), k)

\* App.close_shop
\* ... hand.max_size = player.effective_hand_size()
hand_resized(s) == [s EXCEPT !.max_size = effective_hand_size(s)]

close_shop(s, k) ==
    deal_up_to_full(hand_resized(new_round(
        [s EXCEPT !.mode = "PLAY", !.shop_available = FALSE,
                  !.round_no = @ + 1,
                  !.rules.score_goal = get_blind_goal(s.round_no + 1)], k)))

\* (variant) a new run that keeps the jokers and the coins of the last one
new_run_kept(s, k) ==
    [s EXCEPT !.cards = build_standard(k), !.discard = <<>>, !.hand = <<>>,
              !.upgrades = [hand_size_bonus |-> 0, redraw_bonus |-> 0,
                            joker_slots_bonus |-> 0],
              !.max_size = 8, !.score = 0, !.round_no = 1,
              !.rules = RoundRules(get_blind_goal(1)), !.shop_available = FALSE,
              !.selected = <<>>, !.mode = "PLAY"]

\* App.new_run
new_run(s, k) ==
    [s EXCEPT !.cards = build_standard(k), !.discard = <<>>, !.hand = <<>>,
              !.jokers = <<>>, !.joker_deck = full_joker_pool,
              !.upgrades = [hand_size_bonus |-> 0, redraw_bonus |-> 0,
                            joker_slots_bonus |-> 0],
              !.max_size = 8, !.score = 0, !.coins = 0, !.round_no = 1,
              !.rules = RoundRules(get_blind_goal(1)), !.shop_available = FALSE,
              !.selected = <<>>, !.mode = "PLAY"]

\* (variant) a redraw that does not look at redraw_remaining
redraw_unlimited(s) ==
    IF s.mode # "PLAY" \/ s.selected = <<>> THEN [s EXCEPT !.last.ok = FALSE]
    ELSE [s EXCEPT !.discard = toss(@, removed_cards(s.hand, s.selected)),
                   !.cards = draw(@, Len(s.selected))[2],
                   !.hand = sort_hand(add(kept_cards(s.hand, s.selected),
                                          draw(s.cards, Len(s.selected))[1], s.max_size),
                                      s.sort_mode),
                   !.selected = <<>>,
                   !.rules.redraw_remaining = @ - 1]

\* (variant) a redraw that does not toss the cards it removes
redraw_undiscarded(s) ==
    IF s.mode # "PLAY" \/ s.rules.redraw_remaining <= 0 \/ s.selected = <<>>
    THEN [s EXCEPT !.last.ok = FALSE]
    ELSE [s EXCEPT !.cards = draw(@, Len(s.selected))[2],
                   !.hand = sort_hand(add(kept_cards(s.hand, s.selected),
                                          draw(s.cards, Len(s.selected))[1], s.max_size),
                                      s.sort_mode),
                   !.selected = <<>>,
                   !.rules.redraw_remaining = @ - 1]

\* (variant) a redraw that also uses up a hand
redraw_costly(s) ==
    IF s.mode # "PLAY" \/ s.rules.redraw_remaining <= 0 \/ s.selected = <<>>
    THEN [s EXCEPT !.last.ok = FALSE]
    ELSE [s EXCEPT !.discard = toss(@, removed_cards(s.hand, s.selected)),
                   !.cards = draw(@, Len(s.selected))[2],
                   !.hand = sort_hand(add(kept_cards(s.hand, s.selected),
                                          draw(s.cards, Len(s.selected))[1], s.max_size),
                                      s.sort_mode),
                   !.selected = <<>>,
                   !.rules.redraw_remaining = @ - 1,
                   !.rules.hands_remaining = @ - 1]

\* (variant) a redraw that leaves the cards it removed selected
redraw_still_selected(s) ==
    IF s.mode # "PLAY" \/ s.rules.redraw_remaining <= 0 \/ s.selected = <<>>
    THEN [s EXCEPT !.last.ok = FALSE]
    ELSE [s EXCEPT !.discard = toss(@, removed_cards(s.hand, s.selected)),
                   !.cards = draw(@, Len(s.selected))[2],
                   !.hand = sort_hand(add(kept_cards(s.hand, s.selected),
                                          draw(s.cards, Len(s.selected))[1], s.max_size),
                                      s.sort_mode),
                   !.rules.redraw_remaining = @ - 1]

\* App.redraw
redraw(s) ==
    IF s.mode # "PLAY" THEN [s EXCEPT !.last.ok = FALSE]
    ELSE IF s.rules.redraw_remaining <= 0 THEN [s EXCEPT !.last.ok = FALSE]
    ELSE IF s.selected = <<>> THEN [s EXCEPT !.last.ok = FALSE]
    ELSE
        LET removed == removed_cards(s.hand, s.selected)
            kept == kept_cards(s.hand, s.selected)
            d == draw(s.cards, Len(removed))
        IN  [s EXCEPT !.discard = toss(@, removed),
                      !.cards = d[2],
                      !.hand = sort_hand(add(kept, d[1], s.max_size), s.sort_mode),
                      !.selected = <<>>,
                      !.rules.redraw_remaining = @ - 1]

\* App.play_hand, the checks: the play is accepted
play_accepted(s) ==
    /\ s.mode = "PLAY"
    /\ s.rules.hands_remaining > 0
    /\ Len(s.hand) >= 1
    /\ s.selected # <<>>
    /\ 1 <= Len(s.selected) /\ Len(s.selected) <= MaxPlay

\* App.play_hand, after the checks: the score and coins of ctx are added, the
\* played cards leave the hand for the discard pile
scored(s, played_cards, ctx) ==
    [s EXCEPT !.score = @ + points_of(ctx),
              !.coins = @ + coins_of(ctx),
              !.hand = kept_cards(s.hand, s.selected),
              !.discard = toss(@, played_cards)]

\* ... hands_remaining -= 1, selected.clear() (after the refill)
hand_counted(s) ==
    [s EXCEPT !.rules.hands_remaining = @ - 1,
              !.selected = <<>>,
              !.last.scored = s.score,
              !.last.deck_empty = (s.cards = <<>>)]

\* (variant) a play that puts the discard pile back under the draw queue
played_recycled(s, played_cards) ==
    hand_counted(deal_up_to_full(
        [scored(s, played_cards, score_context(played_cards, s.jokers))
            EXCEPT !.cards = recycle(s.cards, s.discard, 0)[1],
                   !.discard = played_cards]))

\* ... scoring, discard, refill
played(s, played_cards) ==
    hand_counted(deal_up_to_full(scored(s, played_cards,
                                        score_context(played_cards, s.jokers))))

play_scored(s) == played(s, removed_cards(s.hand, s.selected))

\* (variant) a goal check that forgets shop_available, so that open_shop returns
play_outcome_shop_closed(s, r) ==
    IF s.score >= s.rules.score_goal
    THEN open_shop([s EXCEPT !.discard = toss(@, s.hand), !.hand = <<>>,
                             !.score = 0], r)
    ELSE IF s.rules.hands_remaining = 0
    THEN save_highscore([s EXCEPT !.mode = "GAMEOVER"])
    ELSE s

\* (variant) a goal check that opens the shop with the hand and the score kept
play_outcome_kept(s, r) ==
    IF s.score >= s.rules.score_goal
    THEN open_shop([s EXCEPT !.shop_available = TRUE], r)
    ELSE IF s.rules.hands_remaining = 0
    THEN save_highscore([s EXCEPT !.mode = "GAMEOVER"])
    ELSE s

\* (variant) a goal check that opens the shop without clearing the score
play_outcome_uncleared(s, r) ==
    IF s.score >= s.rules.score_goal
    THEN open_shop([s EXCEPT !.discard = toss(@, s.hand), !.hand = <<>>,
                             !.shop_available = TRUE], r)
    ELSE IF s.rules.hands_remaining = 0
    THEN save_highscore([s EXCEPT !.mode = "GAMEOVER"])
    ELSE s

\* App.play_hand, the goal check that ends it
play_outcome(s, r) ==
    IF s.score >= s.rules.score_goal
    THEN open_shop([s EXCEPT !.discard = toss(@, s.hand), !.hand = <<>>,
                             !.score = 0, !.shop_available = TRUE], r)
    ELSE IF s.rules.hands_remaining = 0
    THEN save_highscore([s EXCEPT !.mode = "GAMEOVER"])
    ELSE s

\* App.play_hand
play_hand(s, r) ==
    IF play_accepted(s) THEN play_outcome(play_scored(s), r)
    ELSE [s EXCEPT !.last.ok = FALSE]

\* (variant) a shop that sells on credit
click_shop_on_credit(s, i) ==
    IF s.shop_items[i].kind = "joker" THEN
        IF Len(s.jokers) >= effective_joker_slots(s) THEN [s EXCEPT !.last.ok = FALSE]
        ELSE [s EXCEPT !.coins = @ - s.shop_items[i].price,
                       !.jokers = Append(@, s.shop_items[i].name),
                       !.joker_deck = SelectSeq(@, LAMBDA t : t.cls # s.shop_items[i].name),
                       !.shop_items = SubSeq(@, 1, i - 1) \o SubSeq(@, i + 1, Len(@))]
    ELSE [s EXCEPT !.coins = @ - s.shop_items[i].price,
                   !.upgrades = [@ EXCEPT ![s.shop_items[i].name] = @ + 1]]

\* (variant) a purchase that leaves the joker in joker_deck
click_shop_restocked(s, i) ==
    IF s.coins < s.shop_items[i].price THEN [s EXCEPT !.last.ok = FALSE]
    ELSE IF s.shop_items[i].kind = "joker" THEN
        IF Len(s.jokers) >= effective_joker_slots(s) THEN [s EXCEPT !.last.ok = FALSE]
        ELSE [s EXCEPT !.coins = @ - s.shop_items[i].price,
                       !.jokers = Append(@, s.shop_items[i].name),
                       !.shop_items = SubSeq(@, 1, i - 1) \o SubSeq(@, i + 1, Len(@))]
    ELSE [s EXCEPT !.coins = @ - s.shop_items[i].price,
                   !.upgrades = [@ EXCEPT ![s.shop_items[i].name] = @ + 1],
                   !.max_size = IF s.shop_items[i].name = "hand_size_bonus" THEN @ + 1 ELSE @,
                   !.rules.redraw_remaining =
                       effective_redraws(s) + IF s.shop_items[i].name = "redraw_bonus" THEN 1 ELSE 0]

\* (variant) a purchase that does not count the joker slots
click_shop_unslotted(s, i) ==
    IF s.coins < s.shop_items[i].price THEN [s EXCEPT !.last.ok = FALSE]
    ELSE IF s.shop_items[i].kind = "joker" THEN
        [s EXCEPT !.coins = @ - s.shop_items[i].price,
                  !.jokers = Append(@, s.shop_items[i].name),
                  !.joker_deck = SelectSeq(@, LAMBDA t : t.cls # s.shop_items[i].name),
                  !.shop_items = SubSeq(@, 1, i - 1) \o SubSeq(@, i + 1, Len(@))]
    ELSE [s EXCEPT !.coins = @ - s.shop_items[i].price,
                   !.upgrades = [@ EXCEPT ![s.shop_items[i].name] = @ + 1],
                   !.max_size = IF s.shop_items[i].name = "hand_size_bonus" THEN @ + 1 ELSE @,
                   !.rules.redraw_remaining =
                       effective_redraws(s) + IF s.shop_items[i].name = "redraw_bonus" THEN 1 ELSE 0]

\* App.click_shop on the i-th item of the offer
click_shop(s, i) ==
    LET it == s.shop_items[i] IN
    IF s.coins < it.price THEN [s EXCEPT !.last.ok = FALSE]
    ELSE IF it.kind = "joker" THEN
        IF Len(s.jokers) >= effective_joker_slots(s) THEN [s EXCEPT !.last.ok = FALSE]
        ELSE [s EXCEPT !.coins = @ - it.price,
                       !.jokers = Append(@, it.name),
                       !.joker_deck = SelectSeq(@, LAMBDA t : t.cls # it.name),
                       !.shop_items = SubSeq(@, 1, i - 1) \o SubSeq(@, i + 1, Len(@))]
    ELSE
        LET s1 == [s EXCEPT !.coins = @ - it.price,
                            !.upgrades = [@ EXCEPT ![it.name] = @ + 1]]
        IN  [s1 EXCEPT !.max_size = effective_hand_size(s1),
                       !.rules.redraw_remaining = effective_redraws(s1)]

\* list.remove(x): drops the first x
remove_first(sq, x) ==
    LET j == CHOOSE n \in 1..Len(sq) : sq[n] = x /\ \A m \in 1..(n - 1) : sq[m] # x
    IN  SubSeq(sq, 1, j - 1) \o SubSeq(sq, j + 1, Len(sq))

\* App.toggle_select
toggle_select(s, i) ==
    IF i \in Range(s.selected)
    THEN [s EXCEPT !.selected = remove_first(@, i)]
    ELSE [s EXCEPT !.selected = Append(@, i)]

\* App.toggle_sort
toggle_sort(s) ==
    LET m == IF s.sort_mode = "rank" THEN "suit" ELSE "rank"
    IN  [s EXCEPT !.sort_mode = m, !.hand = sort_hand(@, m)]

\* App.open_deck / App.close_deck
open_deck(s) == [s EXCEPT !.mode = "DECK"]

close_deck(s) == [s EXCEPT !.mode = "PLAY"]

\* the players explored (see below)
Players ==
    [cards : 1..MaxSelect, exit : {"close"}] \cup {[cards |-> MaxPlay, exit |-> "deck"]}

(***************************************************************************)
(* Init: the state App.__init__ leaves (no high-score file).               *)
(***************************************************************************)
Init ==
    /\ cards \in {build_standard(k) : k \in ShuffleChoices}
    /\ discard = <<>>
    /\ hand = <<>>
    /\ max_size = 8
    /\ jokers = <<>>
    /\ score = 0
    /\ coins = 0
    /\ upgrades = [hand_size_bonus |-> 0, redraw_bonus |-> 0, joker_slots_bonus |-> 0]
    /\ rules = RoundRules(300)
    /\ round_no = 1
    /\ mode = "PLAY"
    /\ selected = <<>>
    /\ sort_mode = "rank"
    /\ shop_items = <<>>
    /\ shop_available = FALSE
    /\ joker_deck = full_joker_pool
    /\ highscores = <<>>
    /\ last = Did("init")
    /\ plan \in Players

(***************************************************************************)
(* The player (bounds on the inputs the exploration takes).                *)
(*  - One run is played, the one App.__init__ begins: the states New Run   *)
(*    leaves are reached and not played on (they differ from the initial   *)
(*    ones in what new_run keeps); no more than two records are stored.    *)
(*  - The states a rejected press leaves are reached and not played on.    *)
(*  - In a run the player commits plan.cards cards per press (or all the   *)
(*    hand when it is shorter), clicked left to right, or presses with     *)
(*    nothing selected.  Redraws come before the first play of a round,    *)
(*    and the player who commits a full poker hand of MaxPlay cards does   *)
(*    not redraw.                                                          *)
(*  - Sort is pressed before the first card of the run is discarded.  The  *)
(*    Deck button is pressed in PLAY before the first deal, and in         *)
(*    GAMEOVER right after the play that led there.                        *)
(*  - The shop is left by Close Shop (plan.exit = "close"), or by the Deck *)
(*    button (plan.exit = "deck") right after the play that led there or   *)
(*    once no joker is left on offer, without buying upgrades; Deal is     *)
(*    pressed in the shop before anything is bought there.                 *)
(***************************************************************************)
\* no joker is left in the current offer
jokers_sold == \A i \in 1..Len(shop_items) : shop_items[i].kind # "joker"

Explored == last.ok /\ last.op # "new_run"

Bounded(s) == Len(s.highscores) <= 2

Committed == Len(selected) = 0 \/ Len(selected) = Min(plan.cards, Len(hand))

Entered(op) == [State EXCEPT !.last = Did(op)]

\* the step to s, within the bound on the high-score list
Commit(s) == Bounded(s) /\ Becomes(s)

(***************************************************************************)
(* The actions: App.run's dispatch of one click.                           *)
(***************************************************************************)
\* the New Run button
NewRun ==
    /\ \E k \in ShuffleChoices : Becomes(new_run(Entered("new_run"), k))
    /\ UNCHANGED plan

\* the Deal button ("Hand already full." counts as a rejected press)
deal_pressed(s) ==
    IF s.max_size - Len(s.hand) > 0 THEN deal_up_to_full(s)
    ELSE [s EXCEPT !.last.ok = FALSE]

Deal ==
    /\ Explored
    /\ mode = "SHOP" => last.op = "play"
    /\ Commit(deal_pressed(Entered("deal")))
    /\ UNCHANGED plan

\* the Play button: (self.deal_up_to_full(), self.play_hand())
Play ==
    /\ Explored
    /\ Committed
    /\ \E r \in RollChoices : Commit(play_hand(deal_up_to_full(Entered("play")), r))
    /\ UNCHANGED plan

\* the Redraw button
Redraw ==
    /\ Explored
    /\ Committed
    /\ rules.hands_remaining = reset_round_values.hands_remaining
    /\ plan.cards # MaxPlay
    /\ Becomes(redraw(Entered("redraw")))
    /\ UNCHANGED plan

\* the Sort button
Sort ==
    /\ Explored
    /\ round_no = 1 /\ discard = <<>> /\ selected = <<>>
    /\ Becomes(toggle_sort(Entered("sort")))
    /\ UNCHANGED plan

\* the Deck button: open_deck() if mode == "PLAY" else close_deck()
DeckButton ==
    /\ Explored
    /\ mode = "PLAY" => hand = <<>> /\ discard = <<>>
    /\ mode = "GAMEOVER" => last.op = "play"
    /\ mode = "SHOP" => plan.exit = "deck" /\ (last.op = "play" \/ jokers_sold)
    /\ Becomes(IF mode = "PLAY" THEN open_deck(Entered("deck"))
               ELSE close_deck(Entered("deck")))
    /\ UNCHANGED plan

\* a click on the i-th card of the hand (mode PLAY)
ClickCard ==
    /\ Explored
    /\ mode = "PLAY"
    /\ \E i \in 0..(Len(hand) - 1) :
          /\ IF i \in Range(selected) THEN i = selected[Len(selected)]
             ELSE i = Len(selected) /\ Len(selected) < plan.cards
          /\ Becomes(toggle_select(Entered("select"), i))
    /\ UNCHANGED plan

\* a click on the i-th item of the offer (mode SHOP)
ClickShopItem ==
    /\ Explored
    /\ mode = "SHOP"
    /\ hand = <<>>
    /\ \E i \in 1..Len(shop_items) :
          /\ shop_items[i].kind = "upgrade" =>
                /\ plan.exit = "close"
                /\ upgrades[shop_items[i].name] < MaxUpgrade \/ coins < shop_items[i].price
          /\ Becomes(click_shop(Entered("buy"), i))
    /\ UNCHANGED plan

\* a click on Close Shop (mode SHOP)
ClickCloseShop ==
    /\ Explored
    /\ mode = "SHOP"
    /\ plan.exit = "close"
    /\ round_no < MaxRound
    /\ \E k \in ShuffleChoices : Commit(close_shop(Entered("close_shop"), k))
    /\ UNCHANGED plan

\* a click on Close Deck (mode DECK)
ClickCloseDeck ==
    /\ Explored
    /\ mode = "DECK"
    /\ Becomes(close_deck(Entered("close_deck")))
    /\ UNCHANGED plan

Next ==
    \/ NewRun
    \/ Deal
    \/ Play
    \/ Redraw
    \/ Sort
    \/ DeckButton
    \/ ClickCard
    \/ ClickShopItem
    \/ ClickCloseShop
    \/ ClickCloseDeck

Spec == Init /\ [][Next]_vars

(***************************************************************************)
(* A run late in its course.  The rounds past the second, a sixth joker    *)
(* and a hand as large as the deck are out of the reach of an exhaustive   *)
(* play from App.__init__.  LateSpec starts in the shop of round r, for    *)
(* each r from FirstLateRound to MaxLateRound, after the winning play and  *)
(* some purchases: five jokers are owned (with them a four of a kind       *)
(* scores above 10000, which wins the rounds up to MaxLateRound), and      *)
(* LateCoins coins are left.  The round was won by its last play; or, in   *)
(* the last round of the table, by the first play of a player who bought   *)
(* 'Hand +1' LateHandBonus times on the way: a hand of 8 + LateHandBonus   *)
(* cards leaves one card to draw.  From there LateSpec takes every click   *)
(* on the offer and the Close Shop click.                                  *)
(***************************************************************************)
FirstLateRound == 3

MaxLateRound == 28

LateCoins == 100

LateHandBonus == 43

\* five classes of full_joker_pool, in the order they were bought
late_jokers == <<"MadJoker", "CleverJoker", "BaseJoker", "TheMaskJoker", "WrathfulJoker">>

\* the state play_hand leaves when the goal of round r is reached: the hand and
\* the played cards tossed, the score cleared, the shop opened
late_shop(r, b, d, roll) ==
    [cards |-> Drop(d, 8 + b + MaxPlay * (IF b = 0 THEN 5 ELSE 1)),
     discard |-> Take(d, 8 + b + MaxPlay * (IF b = 0 THEN 5 ELSE 1)),
     hand |-> <<>>, max_size |-> 8 + b, jokers |-> late_jokers, score |-> 0,
     coins |-> LateCoins,
     upgrades |-> [hand_size_bonus |-> b, redraw_bonus |-> 0, joker_slots_bonus |-> 0],
     rules |-> [score_goal |-> get_blind_goal(r),
                hands_remaining |-> IF b = 0 THEN 0 ELSE 4,
                redraw_remaining |-> 5],
     round_no |-> r, mode |-> "SHOP", selected |-> <<>>, sort_mode |-> "rank",
     shop_items |-> <<>>, shop_available |-> TRUE,
     joker_deck |-> SelectSeq(full_joker_pool, LAMBDA t : t.cls \notin Range(late_jokers)),
     highscores |-> <<>>, last |-> Did("buy")]

\* the state is s
Begins(s) ==
    /\ cards = s.cards
    /\ discard = s.discard
    /\ hand = s.hand
    /\ max_size = s.max_size
    /\ jokers = s.jokers
    /\ score = s.score
    /\ coins = s.coins
    /\ upgrades = s.upgrades
    /\ rules = s.rules
    /\ round_no = s.round_no
    /\ mode = s.mode
    /\ selected = s.selected
    /\ sort_mode = s.sort_mode
    /\ shop_items = s.shop_items
    /\ shop_available = s.shop_available
    /\ joker_deck = s.joker_deck
    /\ highscores = s.highscores
    /\ last = s.last

LateInit ==
    /\ plan = [cards |-> MaxPlay, exit |-> "close"]
    /\ \E r \in FirstLateRound..MaxLateRound, b \in {0, LateHandBonus},
          k \in ShuffleChoices, roll \in 0..(Len(upgrade_pool) - 1) :
          /\ b = 0 \/ r = Len(BLIND_GOALS)
          /\ Begins([late_shop(r, b, build_standard(k), roll) EXCEPT
                         !.shop_items = roll_shop(late_shop(r, b, build_standard(k), roll), roll)])

\* a click on an item of the offer
LateBuy ==
    /\ mode = "SHOP"
    /\ \E i \in 1..Len(shop_items) : Becomes(click_shop(Entered("buy"), i))
    /\ UNCHANGED plan

\* a click on Close Shop
LateCloseShop ==
    /\ mode = "SHOP"
    /\ \E k \in ShuffleChoices : Becomes(close_shop(Entered("close_shop"), k))
    /\ UNCHANGED plan

LateNext ==
    \/ LateBuy
    \/ LateCloseShop

LateSpec == LateInit /\ [][LateNext]_vars

(***************************************************************************)
(* The plays of one hand.  rng.shuffle can deal any eight cards, and the   *)
(* play from App.__init__ above takes only the hands its NumShuffles       *)
(* orders deal.  PlaySpec starts with round 2 just dealt, for each hand of *)
(* sample_hands (between them the ten categories of BASE_TABLE) and each   *)
(* list of sample_jokers (between them the sixteen classes, four at a      *)
(* time, bought on the visits to the shop of round 1, nothing bought from  *)
(* the last offer, SampleCoins coins left), and takes every selection of   *)
(* up to MaxSelect cards, clicked left to right, and the Play button on    *)
(* it.                                                                     *)
(***************************************************************************)
SampleCoins == 40

sample_hands ==
    { << Card("S", "A"), Card("S", "K"), Card("S", "Q"), Card("S", "J"),
         Card("S", "10"), Card("S", "9"), Card("S", "2"), Card("H", "2") >>,
      << Card("S", "7"), Card("H", "7"), Card("D", "7"), Card("C", "7"),
         Card("S", "5"), Card("H", "5"), Card("D", "6"), Card("C", "3") >>,
      << Card("D", "A"), Card("S", "K"), Card("H", "10"), Card("C", "6"),
         Card("D", "5"), Card("S", "4"), Card("H", "3"), Card("C", "2") >> }

sample_jokers ==
    {<<>>} \cup {[i \in 1..4 |-> full_joker_pool[4 * n + i].cls] : n \in 0..3}

\* the state close_shop leaves at the start of round 2: h dealt and sorted, the
\* other cards in the draw queue, js owned
round_dealt(h, js) ==
    [cards |-> SelectSeq(StandardCards, LAMBDA c : c \notin Range(h)),
     discard |-> <<>>, hand |-> sort_hand(h, "rank"), max_size |-> 8,
     jokers |-> js, score |-> 0, coins |-> SampleCoins,
     upgrades |-> [hand_size_bonus |-> 0, redraw_bonus |-> 0, joker_slots_bonus |-> 0],
     rules |-> RoundRules(get_blind_goal(2)),
     round_no |-> 2, mode |-> "PLAY", selected |-> <<>>, sort_mode |-> "rank",
     shop_items |-> <<>>, shop_available |-> FALSE,
     joker_deck |-> SelectSeq(full_joker_pool, LAMBDA t : t.cls \notin Range(js)),
     highscores |-> <<>>, last |-> Did("close_shop")]

PlayInit ==
    /\ plan = [cards |-> MaxPlay, exit |-> "close"]
    /\ \E h \in sample_hands, js \in sample_jokers :
          Begins([round_dealt(h, js) EXCEPT !.shop_items = roll_shop(round_dealt(h, js), 0)])

\* a click on a card to the right of the cards selected
SelectCard ==
    /\ last.op \in {"close_shop", "select"}
    /\ Len(selected) < MaxSelect
    /\ \E i \in 0..(Len(hand) - 1) :
          /\ IF selected = <<>> THEN TRUE ELSE i > selected[Len(selected)]
          /\ Becomes(toggle_select(Entered("select"), i))
    /\ UNCHANGED plan

\* the Play button
PlaySelected ==
    /\ last.op \in {"close_shop", "select"}
    /\ \E r \in RollChoices :
          Becomes(play_hand(deal_up_to_full(Entered("play")), r))
    /\ UNCHANGED plan

PlayNext ==
    \/ SelectCard
    \/ PlaySelected

PlaySpec == PlayInit /\ [][PlayNext]_vars

(***************************************************************************)
(* The hands eval_hand tells apart.  EvalSpec starts like PlaySpec, with   *)
(* no joker owned, for each hand of eval_hands: eight ranks in a row from  *)
(* each of EvalRuns places of the circle A 2 3 ... K A, all spades or with *)
(* the suits taking turns, and the hands of repeated ranks.                *)
(***************************************************************************)
EvalRuns == 4

\* the rank n places past the ace on the circle A 2 3 ... K A 2 ...
rank_at(n) == RANKS[(n % Len(RANKS)) + 1]

\* eight ranks in a row from place n, of one suit or with the suits in turn
run_hand(n, mixed) ==
    [i \in 1..8 |-> Card(IF mixed THEN SUITS[(i % Len(SUITS)) + 1] ELSE SUITS[1],
                         rank_at(n + i - 1))]

eval_hands ==
    {run_hand(3 * k, mixed) : k \in 0..(EvalRuns - 1), mixed \in BOOLEAN}
    \cup
    { << Card("S", "7"), Card("H", "7"), Card("D", "7"), Card("C", "7"),
         Card("S", "5"), Card("H", "5"), Card("D", "5"), Card("C", "3") >>,
      << Card("S", "9"), Card("H", "9"), Card("D", "9"), Card("C", "4"),
         Card("S", "4"), Card("H", "2"), Card("D", "2"), Card("C", "K") >> }

EvalInit ==
    /\ plan = [cards |-> MaxPlay, exit |-> "close"]
    /\ \E h \in eval_hands :
          Begins([round_dealt(h, <<>>) EXCEPT !.shop_items = roll_shop(round_dealt(h, <<>>), 0)])

EvalSpec == EvalInit /\ [][PlayNext]_vars

(***************************************************************************)
(* Properties.                                                             *)
(***************************************************************************)
\* the step is a press of the button (or a click) that ran handler op
Pressed(op) == last'.op = op

\* C1: in every reachable state the draw queue, the discard pile and the hand
\* together hold each of the 52 (suit, rank) cards exactly once
all_cards_once(all) == Len(all) = Len(StandardCards) /\ Range(all) = AllCards

C1_CardsConserved == all_cards_once(cards \o discard \o hand)

\* a second round under way, with jokers bought, cards played and cards in hand
C1_Witness ==
    /\ round_no = 2 /\ jokers # <<>> /\ last.op = "play" /\ last.ok
    /\ cards # <<>> /\ discard # <<>> /\ hand # <<>>

\* C2: after an accepted play the mode is SHOP iff the round score after
\* scoring reached the goal; it is GAMEOVER iff the score is below the goal and
\* the draw queue is empty after the refill or hands_remaining is 0; otherwise
\* it is still PLAY
C2_PlayOutcome ==
    (last.op = "play" /\ last.ok) =>
        /\ mode = "SHOP" <=> last.scored >= rules.score_goal
        /\ mode = "GAMEOVER" <=>
              /\ last.scored < rules.score_goal
              /\ (last.deck_empty \/ rules.hands_remaining = 0)
        /\ mode \in {"SHOP", "GAMEOVER", "PLAY"}

\* an accepted play that lost the run on the empty draw queue, with hands left
C2_Witness ==
    /\ last.op = "play" /\ last.ok /\ mode = "GAMEOVER"
    /\ last.deck_empty /\ rules.hands_remaining > 0

\* C3: when a play brings the round score to the goal, the shop is entered
\* with an empty hand (its cards are on the discard pile) and round score 0
C3_ShopEntry ==
    (last.op = "play" /\ last.ok /\ last.scored >= rules.score_goal) =>
        /\ mode = "SHOP"
        /\ hand = <<>>
        /\ score = 0
        /\ all_cards_once(cards \o discard)

\* a play that won the round with cards left in the hand to discard
C3_Witness ==
    /\ last.op = "play" /\ last.ok /\ last.scored >= rules.score_goal
    /\ mode = "SHOP" /\ Len(discard) > MaxPlay

\* C4: a press of Play that is rejected leaves hand, draw queue, discard pile,
\* round score, coins, hands_remaining, redraw_remaining and mode as they were
C4_RejectedPlayUnchanged ==
    [][(Pressed("play") /\ ~last'.ok) =>
          /\ hand' = hand /\ cards' = cards /\ discard' = discard
          /\ score' = score /\ coins' = coins /\ rules' = rules /\ mode' = mode]_vars

\* C5: a redraw pressed with redraw_remaining = 0 is rejected and leaves the
\* hand, the draw queue, the discard pile and redraw_remaining as they were
C5_RedrawExhausted ==
    [][(Pressed("redraw") /\ rules.redraw_remaining = 0) =>
          /\ ~last'.ok
          /\ hand' = hand /\ cards' = cards /\ discard' = discard
          /\ rules'.redraw_remaining = rules.redraw_remaining]_vars

\* a redraw rejected for nothing but the exhausted redraws
C5_Witness ==
    /\ last.op = "redraw" /\ ~last.ok
    /\ rules.redraw_remaining = 0 /\ mode = "PLAY" /\ selected # <<>>

\* C6: a round entered through close_shop starts with hands_remaining = 5,
\* round score 0 and redraw_remaining = 5 + the redraw bonus
C6_RoundStart ==
    last.op = "close_shop" =>
        /\ rules.hands_remaining = 5
        /\ score = 0
        /\ rules.redraw_remaining = 5 + upgrades.redraw_bonus

\* C7 as stated: the hand is as long after an accepted redraw as before it
C7_SameHandSize ==
    [][(Pressed("redraw") /\ last'.ok) => Len(hand') = Len(hand)]_vars

\* C7: an accepted redraw of k selected cards moves those k cards to the
\* discard pile and draws back k cards or, when the draw queue holds fewer,
\* all of the draw queue
C7_RedrawExchange ==
    [][(Pressed("redraw") /\ last'.ok) =>
          /\ discard' = discard \o removed_cards(hand, selected)
          /\ Len(hand') = Len(hand) - Len(selected) + Min(Len(selected), Len(cards))
          /\ Len(cards') = Len(cards) - Min(Len(selected), Len(cards))]_vars

\* an accepted redraw that the draw queue could not fill
C7_Witness ==
    /\ last.op = "redraw" /\ last.ok /\ cards = <<>> /\ Len(hand) < max_size

\* C8: an accepted redraw lowers redraw_remaining by exactly 1 and leaves the
\* round score, coins, hands_remaining, round number, goal and mode unchanged
C8_RedrawFrame ==
    [][(Pressed("redraw") /\ last'.ok) =>
          /\ rules'.redraw_remaining = rules.redraw_remaining - 1
          /\ score' = score /\ coins' = coins
          /\ rules'.hands_remaining = rules.hands_remaining
          /\ round_no' = round_no
          /\ rules'.score_goal = rules.score_goal
          /\ mode' = mode]_vars

\* an accepted redraw, the last one the round allows
C8_Witness ==
    /\ last.op = "redraw" /\ last.ok /\ rules.redraw_remaining = 0 /\ discard # <<>>

\* C9: the step into GAMEOVER stores exactly one record, and no step taken
\* while the game stays in GAMEOVER stores another
C9_OneRecord ==
    [][/\ (mode # "GAMEOVER" /\ mode' = "GAMEOVER") => last'.saves = 1
       /\ (mode = "GAMEOVER" /\ mode' = "GAMEOVER") => last'.saves = 0]_vars

\* C10: a purchase with fewer coins than the price, or of a joker when the
\* owned jokers fill effective_joker_slots, is rejected and leaves coins,
\* jokers, upgrades, the joker_deck and the offer as they were
refused(s) ==
    /\ ~s.last.ok
    /\ s.coins = coins /\ s.jokers = jokers /\ s.upgrades = upgrades
    /\ s.joker_deck = joker_deck /\ s.shop_items = shop_items

C10_PurchaseRefused ==
    mode = "SHOP" =>
        \A i \in 1..Len(shop_items) :
            (\/ coins < shop_items[i].price
             \/ /\ shop_items[i].kind = "joker"
                /\ Len(jokers) >= effective_joker_slots(State))
            => refused(click_shop(Entered("buy"), i))

\* a joker that could be paid for, refused because the slots are full
C10_Witness ==
    /\ last.op = "buy" /\ ~last.ok /\ mode = "SHOP"
    /\ Len(jokers) >= effective_joker_slots(State)
    /\ \E i \in 1..Len(shop_items) :
          shop_items[i].kind = "joker" /\ coins >= shop_items[i].price

\* C11: after a successful purchase of any entry of the offer, joker or upgrade,
\* that entry is no longer in the offer (so no entry is bought twice in a visit)
C11_EntryRemoved ==
    mode = "SHOP" =>
        \A i \in 1..Len(shop_items) :
            click_shop(Entered("buy"), i).last.ok =>
                shop_items[i] \notin Range(click_shop(Entered("buy"), i).shop_items)

\* the joker classes roll_shop can still draw, and those on offer
available_jokers(deck) == {deck[i].cls : i \in 1..Len(deck)}

offered_jokers(items) == {items[i].name : i \in {n \in 1..Len(items) : items[n].kind = "joker"}}

\* C12: the owned jokers are pairwise distinct; an owned joker is neither in the
\* pool later offers are rolled from nor in the offer; and only new_run puts a
\* joker back into that pool
C12_JokersNotReoffered ==
    [][/\ Cardinality(Range(jokers')) = Len(jokers')
       /\ Range(jokers') \cap available_jokers(joker_deck') = {}
       /\ Range(jokers') \cap offered_jokers(shop_items') = {}
       /\ \/ available_jokers(joker_deck') \subseteq available_jokers(joker_deck)
          \/ Pressed("new_run")]_vars

\* an offer rolled in the second round for a player who owns jokers
C12_Witness ==
    /\ mode = "SHOP" /\ last.op = "play" /\ round_no = 2
    /\ Len(jokers) >= 2 /\ offered_jokers(shop_items) # {}

C14_HandBound ==
    /\ Len(hand) <= 8 + upgrades.hand_size_bonus
    /\ \A n \in 0..Len(cards) :
          Len(add(hand, Take(cards, n), max_size)) <= 8 + upgrades.hand_size_bonus

\* the hand-size upgrade bought twice, and a hand of ten dealt
C14_Witness ==
    /\ upgrades.hand_size_bonus = 2 /\ Len(hand) = 10
    /\ last.op = "close_shop"

\* the schedule of score goals: the entries of the table for the rounds 1 to 24,
\* and floor(9000 * 1.5^(r - 24)) past them
schedule(r) ==
    IF r <= 24 THEN BLIND_GOALS[r]
    ELSE (9000 * 3^(r - 24)) \div 2^(r - 24)

\* C15: Close Shop in the shop raises the round number by exactly 1, sets the
\* goal to the schedule's value for the new round number, starts a new round
\* (score 0, five hands), refills the hand, and leaves the game in PLAY
C15_CloseShop ==
    [][Pressed("close_shop") =>
          /\ mode = "SHOP"
          /\ round_no' = round_no + 1
          /\ rules'.score_goal = schedule(round_no')
          /\ score' = 0
          /\ rules'.hands_remaining = 5
          /\ Len(hand') = Min(max_size', Len(StandardCards))
          /\ mode' = "PLAY"]_vars

\* C16: new_run, from any state, leaves round score 0, coins 0, the three upgrade
\* counters 0, no owned joker, the full pool of 16 jokers, round 1 with the goal
\* schedule(1) = 300, five hands, a draw queue of the 52 cards with the discard
\* pile and the hand empty, and the mode PLAY
C16_NewRun ==
    last.op = "new_run" =>
        /\ score = 0 /\ coins = 0
        /\ upgrades = [hand_size_bonus |-> 0, redraw_bonus |-> 0, joker_slots_bonus |-> 0]
        /\ jokers = <<>>
        /\ joker_deck = full_joker_pool /\ Cardinality(available_jokers(joker_deck)) = 16
        /\ round_no = 1 /\ rules.score_goal = schedule(1) /\ schedule(1) = 300
        /\ rules.hands_remaining = 5
        /\ all_cards_once(cards) /\ discard = <<>> /\ hand = <<>>
        /\ mode = "PLAY"

\* a new run begun after a run that went through the shop and was lost
C16_Witness ==
    /\ last.op = "new_run" /\ highscores # <<>> /\ shop_items # <<>>
    /\ Len(shop_items) < 3

\* C17: the Deck button and the Close Deck click are read-only: they change
\* neither the hand, the draw queue, the discard pile, the round score, the
\* coins, the round counters nor the round number; closing the view returns to
\* the mode the view was opened in, and in SHOP or GAMEOVER the mode stays
C17_DeckReadOnly ==
    [][(Pressed("deck") \/ Pressed("close_deck")) =>
          /\ hand' = hand /\ cards' = cards /\ discard' = discard
          /\ score' = score /\ coins' = coins /\ rules' = rules
          /\ round_no' = round_no
          /\ mode = "PLAY" => mode' = "DECK"
          /\ mode = "DECK" => mode' = "PLAY"
          /\ mode \in {"SHOP", "GAMEOVER"} => mode' = mode]_vars

\* C18: the score goal of the round equals schedule(round number): the entry of
\* the table for the rounds 1 to 24, floor(9000 * 1.5^(r - 24)) past them
C18_GoalOnSchedule == rules.score_goal = schedule(round_no)

\* a round past the table has begun
C18_Witness ==
    /\ last.op = "close_shop" /\ round_no > Len(BLIND_GOALS) + 1
    /\ rules.score_goal > BLIND_GOALS[Len(BLIND_GOALS)]

\* the cards the Play button plays: the selected cards of the hand as the deal
\* before the play leaves it
played_now == removed_cards(deal_up_to_full(State).hand, selected)

\* what joker j alone adds to a context of the played cards and their category
joker_bonus(j, cs) ==
    apply(j, [base_chips |-> 0, base_mult |-> 0, hand_type |-> hand_kind(cs),
              cards |-> cs, coins |-> 0])

chip_total(cs, js) ==
    BASE_TABLE[hand_kind(cs)][1]
    + SumSeq([i \in 1..Len(cs) |->
                 IF cs[i].rank = "A" THEN 11
                 ELSE IF cs[i].rank \in {"10", "J", "Q", "K"} THEN 10
                 ELSE RANK_VALUE[cs[i].rank]])
    + SumSeq([i \in 1..Len(js) |-> joker_bonus(js[i], cs).base_chips])

mult_total(cs, js) ==
    BASE_TABLE[hand_kind(cs)][2]
    + SumSeq([i \in 1..Len(js) |-> joker_bonus(js[i], cs).base_mult])

\* C19: an accepted play of 1 to 5 cards adds chip_total * mult_total to the round
\* score: chip_total = base chips of the category + chip values of the played
\* cards (A 11, 10/J/Q/K 10, else the face value) + chip bonuses of the owned
\* jokers whose condition holds, mult_total = base mult + their mult bonuses;
\* A K Q J 10 of spades without jokers gives 1208, a pair of 2s gives 28
C19_PlayPoints ==
    [][/\ (Pressed("play") /\ last'.ok) =>
             /\ Len(played_now) \in 1..5
             /\ last'.scored - score = chip_total(played_now, jokers) * mult_total(played_now, jokers)
       /\ play_points(<<Card("S", "A"), Card("S", "K"), Card("S", "Q"), Card("S", "J"),
                        Card("S", "10")>>, <<>>) = 1208
       /\ play_points(<<Card("S", "2"), Card("H", "2")>>, <<>>) = 28]_vars

\* the four 7s and the 6 played by the owner of the Mad Joker (+20 Mult) and
\* the Gluttonous Joker (+4 Mult for the club)
C19_Witness ==
    /\ last.op = "play" /\ last.ok
    /\ {"MadJoker", "GluttonousJoker"} \subseteq Range(jokers)
    /\ last.scored = (60 + 4 * 7 + 6) * (7 + 20 + 4)

\* C20: an accepted play raises the coins by exactly max(1, points // 10) plus the
\* coins the jokers grant, points being the score of that play; so by at least 1
C20_PlayCoins ==
    [][(Pressed("play") /\ last'.ok) =>
          /\ coins' - coins =
                Max(1, (last'.scored - score) \div 10)
                + SumSeq([i \in 1..Len(jokers) |-> joker_bonus(jokers[i], played_now).coins])
          /\ coins' >= coins + 1]_vars

\* a play of fewer than ten points has paid one coin
C20_Witness ==
    /\ last.op = "play" /\ last.ok /\ last.scored < 10 /\ coins = SampleCoins + 1

\* the conditions of the categories, on a set of cards
times(S, r) == Cardinality({c \in S : c.rank = r})

same_suit(S) == \E s \in Range(SUITS) : \A c \in S : c.suit = s

in_a_row(V) == \E v \in V : V = v..(v + 4)

in_sequence(S) ==
    \/ in_a_row({IF c.rank = "A" THEN 14 ELSE RANK_VALUE[c.rank] : c \in S})
    \/ in_a_row({RANK_VALUE[c.rank] : c \in S})

royal_values(S) == {IF c.rank = "A" THEN 14 ELSE RANK_VALUE[c.rank] : c \in S} = 10..14

pairs_in(S) == Cardinality({r \in Range(RANKS) : times(S, r) = 2})

\* the first category of five cards, in the order of precedence
first_category(S) ==
    IF in_sequence(S) /\ same_suit(S) /\ royal_values(S) THEN "Royal Flush"
    ELSE IF in_sequence(S) /\ same_suit(S) THEN "Straight Flush"
    ELSE IF \E r \in Range(RANKS) : times(S, r) = 4 THEN "Four of a Kind"
    ELSE IF (\E r \in Range(RANKS) : times(S, r) = 3) /\ pairs_in(S) = 1 THEN "Full House"
    ELSE IF same_suit(S) THEN "Flush"
    ELSE IF in_sequence(S) THEN "Straight"
    ELSE IF \E r \in Range(RANKS) : times(S, r) = 3 THEN "Three of a Kind"
    ELSE IF pairs_in(S) = 2 THEN "Two Pair"
    ELSE IF pairs_in(S) = 1 THEN "Pair"
    ELSE "High Card"

\* C21: five distinct cards are given the first category, in the order Royal
\* Flush, Straight Flush, Four of a Kind, Full House, Flush, Straight, Three of a
\* Kind, Two Pair, Pair, High Card, whose condition holds: flush = one suit,
\* straight = five values in a row with the ace as 14 or as 1, royal = the
\* values 10 to 14; A 2 3 4 5 and 10 J Q K A are straights, Q K A 2 3 is not
C21_FiveCards ==
    [][(Pressed("play") /\ last'.ok /\ Len(played_now) = 5) =>
          /\ hand_kind(played_now) = first_category(Range(played_now))
          /\ hand_kind(<<Card("S", "A"), Card("H", "2"), Card("D", "3"), Card("C", "4"),
                         Card("S", "5")>>) = "Straight"
          /\ hand_kind(<<Card("S", "10"), Card("H", "J"), Card("D", "Q"), Card("C", "K"),
                         Card("S", "A")>>) = "Straight"
          /\ hand_kind(<<Card("S", "Q"), Card("H", "K"), Card("D", "A"), Card("C", "2"),
                         Card("S", "3")>>) = "High Card"]_vars

\* the straight flush A 2 3 4 5 of spades has been played (100 + 25 chips, mult 8)
C21_Witness ==
    /\ last.op = "play" /\ last.ok /\ last.scored = (100 + 11 + 2 + 3 + 4 + 5) * 8
    /\ Range(SubSeq(discard, 1, 5)) = {Card("S", r) : r \in {"A", "2", "3", "4", "5"}}

\* the highest category the rank counts of fewer than five cards qualify for
counted_category(S) ==
    IF \E r \in Range(RANKS) : times(S, r) = 4 THEN "Four of a Kind"
    ELSE IF \E r \in Range(RANKS) : times(S, r) = 3 THEN "Three of a Kind"
    ELSE IF pairs_in(S) = 2 THEN "Two Pair"
    ELSE IF pairs_in(S) = 1 THEN "Pair"
    ELSE "High Card"

\* C22: one to four distinct cards are given the highest category their rank
\* counts qualify for (Four of a Kind, else Three of a Kind, else Two Pair, else
\* Pair, else High Card), and never Straight, Flush, Full House, Straight Flush
\* or Royal Flush
C22_FewCards ==
    [][(Pressed("play") /\ last'.ok /\ Len(played_now) < 5) =>
          /\ Len(played_now) \in 1..4
          /\ hand_kind(played_now) = counted_category(Range(played_now))
          /\ hand_kind(played_now) \notin
                {"Straight", "Flush", "Full House", "Straight Flush", "Royal Flush"}]_vars

\* three 7s and a 5 have been played: Three of a Kind, (30 + 26) * 3
C22_Witness ==
    /\ last.op = "play" /\ last.ok /\ last.scored = (30 + 7 + 7 + 7 + 5) * 3
    /\ Len(discard) = 4 /\ times(Range(discard), "7") = 3

\* cs in the order p of its positions
permuted(cs, p) == [i \in 1..Len(cs) |-> cs[p[i]]]

\* C23: classification does not depend on the order of the cards: for every
\* played sequence of 1 to 5 distinct cards and every permutation of it,
\* eval_hand gives the same category, base chips and base mult
C23_OrderIndependent ==
    [][(Pressed("play") /\ last'.ok) =>
          /\ Len(played_now) \in 1..5
          /\ Cardinality(Range(played_now)) = Len(played_now)
          /\ \A p \in Permutations(1..Len(played_now)) :
                eval_hand(permuted(played_now, p)) = eval_hand(played_now)]_vars

\* a full house of 7s and 5s has been played, in the order the hand is sorted
C23_Witness ==
    /\ last.op = "play" /\ last.ok /\ last.scored = (40 + 7 + 7 + 7 + 5 + 5) * 4
    /\ Len(discard) = 5 /\ times(Range(discard), "7") = 3 /\ times(Range(discard), "5") = 2

(***************************************************************************)
(* The last hand of a round.  ScoreSpec starts in round 2 with one hand    *)
(* left: each hand of sample_hands dealt, and the leftmost card played     *)
(* four times over.  The high-score list is one of sample_records, the     *)
(* lists earlier runs have left.  Every selection of up to MaxSelect cards *)
(* is taken, and the Play button on it: the round is won, or the run is    *)
(* lost and its record inserted.                                           *)
(***************************************************************************)
\* a click on the leftmost card and the Play button
play_first(s) ==
    play_hand(deal_up_to_full(toggle_select([s EXCEPT !.last = Did("play")], 0)), 0)

\* one hand is left of round 2, which began with h dealt
last_hand(h) == play_first(play_first(play_first(play_first(round_dealt(h, <<>>)))))

\* {"score": sc, "round": r}
score_record(sc, r) == [score |-> sc, round |-> r]

\* what banana_highscores.json holds after earlier runs: nothing, nine records
\* or ten, with records of one score from different rounds
sample_records ==
    { <<>>,
      << score_record(520, 3), score_record(410, 2), score_record(250, 1), score_record(69, 3), score_record(69, 1),
         score_record(68, 2), score_record(59, 3), score_record(59, 1), score_record(7, 1) >>,
      << score_record(900, 5), score_record(520, 3), score_record(410, 2), score_record(250, 1), score_record(120, 2),
         score_record(69, 3), score_record(69, 1), score_record(68, 2), score_record(59, 3), score_record(59, 1) >> }

ScoreInit ==
    /\ plan = [cards |-> MaxPlay, exit |-> "close"]
    /\ \E h \in sample_hands, hs \in sample_records :
          Begins([last_hand(h) EXCEPT !.highscores = hs])

\* a click on a card to the right of the cards selected
ScoreSelect ==
    /\ mode = "PLAY" /\ last.ok
    /\ Len(selected) < MaxSelect
    /\ \E i \in 0..(Len(hand) - 1) :
          /\ IF selected = <<>> THEN TRUE ELSE i > selected[Len(selected)]
          /\ Becomes(toggle_select(Entered("select"), i))
    /\ UNCHANGED plan

\* the Play button
ScorePlay ==
    /\ mode = "PLAY" /\ last.ok
    /\ \E r \in RollChoices :
          Becomes(play_hand(deal_up_to_full(Entered("play")), r))
    /\ UNCHANGED plan

ScoreNext ==
    \/ ScoreSelect
    \/ ScorePlay

ScoreSpec == ScoreInit /\ [][ScoreNext]_vars

\* C24: after every insertion of a record, the high-score list is sorted by
\* score descending, records of one score by round descending, and holds at
\* most 10 records
C24_SortedCapped ==
    last.saves > 0 =>
        /\ Len(highscores) <= 10
        /\ \A i \in 1..(Len(highscores) - 1) :
              \/ highscores[i].score > highscores[i + 1].score
              \/ /\ highscores[i].score = highscores[i + 1].score
                 /\ highscores[i].round >= highscores[i + 1].round

\* the record of a run lost in round 2 with 59 points has been put between the
\* records of 59 points of rounds 3 and 1, and the list holds 10 records
C24_Witness ==
    /\ last.saves > 0 /\ Len(highscores) = 10
    /\ \E i \in 2..9 : /\ highscores[i] = score_record(59, 2)
                       /\ highscores[i - 1] = score_record(59, 3)
                       /\ highscores[i + 1] = score_record(59, 1)

\* C25: cards are never recycled in the middle of a round: under every
\* operation other than close_shop and new_run the discard pile only grows (it
\* keeps its cards, in place), and none of its cards comes back to the draw
\* queue or the hand
C25_NoRecycling ==
    [][(~Pressed("close_shop") /\ ~Pressed("new_run")) =>
          /\ Len(discard') >= Len(discard)
          /\ SubSeq(discard', 1, Len(discard)) = discard
          /\ Range(discard) \cap (Range(cards') \cup Range(hand')) = {}]_vars

\* a refill has found the draw queue short in the middle of a round: the hand
\* is not full, the queue is empty, and the discarded cards are still discarded
C25_Witness ==
    /\ last.op \in {"play", "redraw", "deal"} /\ last.ok
    /\ cards = <<>> /\ Len(hand) < max_size /\ Len(discard) > 0
    /\ Len(discard) + Len(hand) = Len(StandardCards)

(***************************************************************************)
(* The last jokers of the pool.  StockSpec starts in the shop of round     *)
(* StockRound, the offer just rolled, with the first n classes of          *)
(* full_joker_pool owned, n from FirstStock to all of them, and a slot     *)
(* bought for each joker past joker_slots.  The player buys jokers, leaves *)
(* by Close Shop, clicks up to MaxPlay cards of the next round's hand from *)
(* the left and presses Play; the shop that opens is not left again.       *)
(***************************************************************************)
StockRound == 6

FirstStock == 12

StockCoins == 100

\* the state play_hand leaves when the goal of round StockRound is reached at
\* the first play, n jokers owned: the hand and the played cards tossed, the
\* score cleared, the shop opened
stock_shop(n, d) ==
    [cards |-> Drop(d, 8 + MaxPlay), discard |-> Take(d, 8 + MaxPlay),
     hand |-> <<>>, max_size |-> 8,
     jokers |-> [i \in 1..n |-> full_joker_pool[i].cls], score |-> 0,
     coins |-> StockCoins,
     upgrades |-> [hand_size_bonus |-> 0, redraw_bonus |-> 0,
                   joker_slots_bonus |-> Len(full_joker_pool) - joker_slots],
     rules |-> [score_goal |-> get_blind_goal(StockRound), hands_remaining |-> 4,
                redraw_remaining |-> 10],
     round_no |-> StockRound, mode |-> "SHOP", selected |-> <<>>, sort_mode |-> "rank",
     shop_items |-> <<>>, shop_available |-> TRUE,
     joker_deck |-> SubSeq(full_joker_pool, n + 1, Len(full_joker_pool)),
     highscores |-> <<>>, last |-> Did("play")]

StockInit ==
    /\ plan = [cards |-> MaxPlay, exit |-> "close"]
    /\ \E n \in FirstStock..Len(full_joker_pool), k \in ShuffleChoices, r \in RollChoices :
          Begins(open_shop(stock_shop(n, build_standard(k)), r))

\* a click on a joker of the offer
StockBuy ==
    /\ mode = "SHOP"
    /\ \E i \in 1..Len(shop_items) :
          /\ shop_items[i].kind = "joker"
          /\ Becomes(click_shop(Entered("buy"), i))
    /\ UNCHANGED plan

\* a click on Close Shop
StockClose ==
    /\ mode = "SHOP" /\ round_no = StockRound
    /\ \E k \in ShuffleChoices : Becomes(close_shop(Entered("close_shop"), k))
    /\ UNCHANGED plan

\* a click on the leftmost card not selected
StockSelect ==
    /\ mode = "PLAY" /\ last.op \in {"close_shop", "select"}
    /\ Len(selected) < Min(MaxPlay, Len(hand))
    /\ Becomes(toggle_select(Entered("select"), Len(selected)))
    /\ UNCHANGED plan

\* the Play button
StockPlay ==
    /\ mode = "PLAY" /\ last.op \in {"close_shop", "select"}
    /\ \E r \in RollChoices :
          Becomes(play_hand(deal_up_to_full(Entered("play")), r))
    /\ UNCHANGED plan

StockNext ==
    \/ StockBuy
    \/ StockClose
    \/ StockSelect
    \/ StockPlay

StockSpec == StockInit /\ [][StockNext]_vars

\* the joker classes the player does not own
unowned == {full_joker_pool[i].cls : i \in 1..Len(full_joker_pool)} \ Range(jokers)

\* the entries of the offer of kind k
entries_of(k) == {i \in 1..Len(shop_items) : shop_items[i].kind = k}

\* the offer holds exactly one upgrade entry, one of the three with its price,
\* and joker entries that are pairwise distinct and not owned
one_upgrade_fresh_jokers ==
    /\ entries_of("joker") \cup entries_of("upgrade") = 1..Len(shop_items)
    /\ Cardinality(entries_of("upgrade")) = 1
    /\ \A i \in entries_of("upgrade") :
          <<shop_items[i].name, shop_items[i].price>> \in
              {<<"hand_size_bonus", 40>>, <<"redraw_bonus", 30>>, <<"joker_slots_bonus", 50>>}
    /\ Cardinality(entries_of("joker")) <= 2
    /\ \A i, j \in entries_of("joker") : i # j => shop_items[i].name # shop_items[j].name
    /\ \A i \in entries_of("joker") : shop_items[i].name \in unowned

\* the offer has just been rolled: an accepted play has opened the shop
freshly_rolled == last.op = "play" /\ last.ok /\ mode = "SHOP"

\* C26 (as stated): every freshly rolled offer has 2 to 3 entries, exactly one
\* upgrade entry and up to 2 distinct jokers the player does not own
C26_TwoOrThree ==
    freshly_rolled => Len(shop_items) \in 2..3 /\ one_upgrade_fresh_jokers

\* C26 (amended): every freshly rolled offer has 1 to 3 entries: exactly one
\* upgrade entry (hand size at 40, redraw at 30 or joker slot at 50), and two
\* distinct jokers the player does not own, or the one or none that is left of
\* the sixteen when the player owns the others
C26_FreshOffer ==
    freshly_rolled =>
        /\ Len(shop_items) \in 1..3
        /\ one_upgrade_fresh_jokers
        /\ Cardinality(entries_of("joker")) = Min(2, Cardinality(unowned))

\* the winner of a round who owns all sixteen jokers is offered one upgrade
C26_Witness ==
    /\ freshly_rolled /\ last.scored > 0
    /\ Cardinality(unowned) = 0 /\ Len(shop_items) = 1
    /\ shop_items[1].kind = "upgrade"

\* the state a click on entry i of the offer leaves
bought(i) == click_shop(Entered("buy"), i)

\* C27: a successful upgrade purchase takes the entry's price off the coins and
\* adds 1 to the purchased upgrade's counter; the other two counters, the owned
\* jokers, the round number, the goal, the hands remaining and the redraws
\* remaining stay as they were
C27_UpgradePurchase ==
    mode = "SHOP" =>
        \A i \in 1..Len(shop_items) :
            (shop_items[i].kind = "upgrade" /\ bought(i).last.ok) =>
                /\ bought(i).coins = coins - shop_items[i].price
                /\ bought(i).upgrades = [upgrades EXCEPT ![shop_items[i].name] = @ + 1]
                /\ bought(i).jokers = jokers
                /\ bought(i).round_no = round_no
                /\ bought(i).rules.score_goal = rules.score_goal
                /\ bought(i).rules.hands_remaining = rules.hands_remaining
                /\ bought(i).rules.redraw_remaining = rules.redraw_remaining

\* C28: GAME_OVER is absorbing until a new run: once the mode is GAMEOVER it
\* stays GAMEOVER under every operation except new_run
C28_GameOverAbsorbing ==
    [][(mode = "GAMEOVER" /\ ~Pressed("new_run")) => mode' = "GAMEOVER"]_vars

\* C29: while the mode is SHOP or GAMEOVER no card moves between the draw
\* queue, the hand and the discard pile under any operation other than
\* close_shop and new_run
C29_CardsAtRest ==
    [][(mode \in {"SHOP", "GAMEOVER"} /\ ~Pressed("close_shop") /\ ~Pressed("new_run")) =>
          (cards' = cards /\ hand' = hand /\ discard' = discard)]_vars

\* C30: between operations the round score is below the round's goal (a play
\* that reaches the goal clears the score before it returns), and every record
\* of the high-score list has a score below the goal of the round it records
C30_ScoreBelowGoal ==
    /\ score < rules.score_goal
    /\ \A i \in 1..Len(highscores) :
          highscores[i].score < schedule(highscores[i].round)

\* a run has been lost with points on the board: its record is stored, and the
\* points are still the round score
C30_Witness ==
    /\ mode = "GAMEOVER" /\ last.saves > 0 /\ score > 0
    /\ \E i \in 1..Len(highscores) : highscores[i] = [score |-> score, round |-> round_no]

\* sel is a list of positions of h, 0-based, none of them twice
valid_selection(sel, h) ==
    /\ Cardinality(Range(sel)) = Len(sel)
    /\ \A k \in 1..Len(sel) : sel[k] \in 0..(Len(h) - 1)

\* C31: in every reachable state the selection is a duplicate-free list of
\* valid hand positions (0 <= i < hand size), and every operation that takes
\* cards out of the hand or replaces the hand (new_run) leaves the selection
\* empty
C31_SelectionValid ==
    [][/\ valid_selection(selected, hand)
       /\ valid_selection(selected', hand')
       /\ ((Range(hand) \ Range(hand') # {} \/ Pressed("new_run")) => selected' = <<>>)]_vars

\* a redraw has found the draw queue short: the hand has shrunk below the
\* positions that were selected, and nothing is selected
C31_Witness ==
    /\ last.op = "redraw" /\ last.ok
    /\ cards = <<>> /\ Len(hand) < max_size - 1
    /\ selected = <<>>
====
